---- MODULE Spec2Model ----
(***************************************************************************)
(* Model of organize_sources.py: the type normaliser (normalize_type) and  *)
(* the pipeline of organize_sources (ingestion loop, write phase, combined *)
(* phase, summary).                                                        *)
(*                                                                         *)
(* Python strings are sequences of code points; Python dicts are functions *)
(* from keys to values; Python lists are sequences.  Documents live on a   *)
(* heap and lists hold references to them, as in the program.              *)
(***************************************************************************)
EXTENDS Integers, Sequences, FiniteSets, TLC

\* ------------------------------------------------------------ bounds

\* Number of JSON files discovered over the whole run (sum of len(json_files)).
MaxFiles == 3

\* Number of pieces a raw type string is put together from (normaliser runs).
MaxTokens == 4

\* ------------------------------------------------------------ strings

\* Printable ASCII, code points 32..126, in code point order (the double quote,
\* the backslash and the backtick are spelled out).
ASCII ==
    << " ", "!", "quote", "#", "$", "%", "&", "'", "(", ")", "*", "+", ",", "-",
       ".", "/", "0", "1", "2", "3", "4", "5", "6", "7", "8", "9", ":", ";",
       "<", "=", ">", "?", "@", "A", "B", "C", "D", "E", "F", "G", "H", "I",
       "J", "K", "L", "M", "N", "O", "P", "Q", "R", "S", "T", "U", "V", "W",
       "X", "Y", "Z", "[", "backslash", "]", "^", "_", "backtick", "a", "b", "c", "d", "e",
       "f", "g", "h", "i", "j", "k", "l", "m", "n", "o", "p", "q", "r", "s",
       "t", "u", "v", "w", "x", "y", "z", "{", "|", "}", "~" >>

\* ord(c) of a printable ASCII character.
Ord(c) == 31 + (CHOOSE i \in 1..Len(ASCII) : ASCII[i] = c)

\* A string literal, written as its characters: Lit(<<"a", "b">>) is "ab".
Lit(cs) == [i \in 1..Len(cs) |-> Ord(cs[i])]

\* The tab character, "\t".
Tab == <<9>>

\* str.isspace on one code point below 256.
IsSpace(c) == c \in {9, 10, 11, 12, 13, 28, 29, 30, 31, 32, 133, 160}

\* str.lower on ASCII text.
Lower(s) == [i \in 1..Len(s) |-> IF s[i] \in 65..90 THEN s[i] + 32 ELSE s[i]]

\* str.strip(): leading and trailing whitespace removed.
Strip(s) ==
    LET keep == {i \in 1..Len(s) : ~IsSpace(s[i])}
    IN  IF keep = {} THEN <<>>
        ELSE LET lo == CHOOSE i \in keep : \A j \in keep : i <= j
                 hi == CHOOSE i \in keep : \A j \in keep : j <= i
             IN  SubSeq(s, lo, hi)

\* str.replace(old, new) for one-character old and new.
ReplaceChar(s, old, new) == [i \in 1..Len(s) |-> IF s[i] = old THEN new ELSE s[i]]

\* sub in s
Contains(s, sub) ==
    \E i \in 1..(Len(s) - Len(sub) + 1) : SubSeq(s, i, i + Len(sub) - 1) = sub

\* s.replace("__", "_"): non-overlapping occurrences, left to right.
RECURSIVE ReplaceDoubleUnderscore(_)
ReplaceDoubleUnderscore(s) ==
    IF Len(s) < 2 THEN s
    ELSE IF s[1] = 95 /\ s[2] = 95
         THEN <<95>> \o ReplaceDoubleUnderscore(SubSeq(s, 3, Len(s)))
         ELSE <<s[1]>> \o ReplaceDoubleUnderscore(Tail(s))

\* Python's < on str: lexicographic on code points, a proper prefix is less.
StrLess(a, b) ==
    \E i \in 1..(Len(b)) :
        /\ i <= Len(a) + 1
        /\ SubSeq(a, 1, i - 1) = SubSeq(b, 1, i - 1)
        /\ (i = Len(a) + 1 \/ a[i] < b[i])

\* Python's < on tuples of str.
RECURSIVE TupleLess(_, _)
TupleLess(a, b) ==
    IF b = <<>> THEN FALSE
    ELSE IF a = <<>> THEN TRUE
    ELSE IF a[1] = b[1] THEN TupleLess(Tail(a), Tail(b))
    ELSE StrLess(a[1], b[1])

\* ------------------------------------------------------------ values

\* JSON values: a string, null, a number, an object.
Str(s) == [kind |-> "str", s |-> s]
Null == [kind |-> "null"]
Num(n) == [kind |-> "num", n |-> n]
Object(items) == [kind |-> "dict", items |-> items]

\* bool(v)
Truthy(v) ==
    CASE v.kind = "str" -> v.s # <<>>
      [] v.kind = "null" -> FALSE
      [] v.kind = "num" -> v.n # 0
      [] v.kind = "dict" -> DOMAIN v.items # {}

\* d.get(key, default)
Get(d, key, default) == IF key \in DOMAIN d THEN d[key] ELSE default

\* d[key] = value
Put(d, key, value) == [k \in DOMAIN d \cup {key} |-> IF k = key THEN value ELSE d[k]]

\* ------------------------------------------------------------ normalize_type

Other == Lit(<<"o", "t", "h", "e", "r">>)

\* The separators replaced by "_": "/", " ", "-".
ReplaceSeparators(s) == ReplaceChar(ReplaceChar(ReplaceChar(s, 47, 95), 32, 95), 45, 95)

\* Faulty variant: "if" in place of "while", one pass of replace.
CollapseUnderscores_once(s) ==
    IF Contains(s, <<95, 95>>) THEN ReplaceDoubleUnderscore(s) ELSE s

\* while "__" in type_clean: type_clean = type_clean.replace("__", "_")
RECURSIVE CollapseUnderscores(_)
CollapseUnderscores(s) ==
    IF Contains(s, <<95, 95>>) THEN CollapseUnderscores(ReplaceDoubleUnderscore(s)) ELSE s

\* type_str.lower() on a value that is not a str raises AttributeError.
normalize_type_raises(type_str) == Truthy(type_str) /\ type_str.kind # "str"

\* Faulty variant: "if type_str is None" in place of "if not type_str".
normalize_type_none_only(type_str) ==
    IF type_str.kind # "str" THEN Other
    ELSE CollapseUnderscores(ReplaceSeparators(Strip(Lower(type_str.s))))

normalize_type(type_str) ==
    IF ~Truthy(type_str) THEN Other
    ELSE CollapseUnderscores(ReplaceSeparators(Strip(Lower(type_str.s))))

\* ------------------------------------------------------------ sorting

\* list.sort(key=...): stable, ascending on the keys computed beforehand.
\* key is a function from the elements to tuples of str.
InsertByKey(sorted, x, key) ==
    LET before == {i \in 1..Len(sorted) : ~TupleLess(key[x], key[sorted[i]])}
        p == Cardinality(before)
    IN  SubSeq(sorted, 1, p) \o <<x>> \o SubSeq(sorted, p + 1, Len(sorted))

RECURSIVE SortByKey(_, _)
SortByKey(list, key) ==
    IF list = <<>> THEN <<>>
    ELSE InsertByKey(SortByKey(SubSeq(list, 1, Len(list) - 1), key), list[Len(list)], key)

\* sorted(...) of a set of str (dict keys, a set of names).
RECURSIVE Sorted(_)
Sorted(set) ==
    IF set = {} THEN <<>>
    ELSE LET least == CHOOSE a \in set : \A b \in set \ {a} : StrLess(a, b)
         IN  <<least>> \o Sorted(set \ {least})

\* ------------------------------------------------------------ state

VARIABLES
    pc,                     \* position in organize_sources
    repositories,           \* find_repositories(): the list iterated at line 158
    ri,                     \* number of repositories whose loop body was entered
    json_files,             \* len(json_files) of the current repository
    fi,                     \* number of its files already handled
    total_files_found,
    total_files_processed,
    total_files_failed,
    heap,                   \* the documents (dict objects), by reference
    loaded,                 \* per document: what load_json_file returned, and where from
    organized_data,         \* repo_name -> type -> list of references
    all_types,
    combined_by_type,       \* type -> list of references
    wpos,                   \* (repository, type) lists handled by the write phase
    cpos,                   \* types handled by the combined phase
    repo_files,             \* <<repo_name, type>> -> array written to <repo>/<type>.json
    combined_files,         \* type -> array written to combined/<type>.json
    summary,                \* content of summary.json
    raised,                 \* the expression whose evaluation raised, if any
    call                    \* one call of normalize_type on its own

pipeline == << pc, repositories, ri, json_files, fi, total_files_found,
               total_files_processed, total_files_failed, heap, loaded,
               organized_data, all_types, combined_by_type, wpos, cpos,
               repo_files, combined_files, summary, raised >>

vars == << pipeline, call >>

\* ------------------------------------------------------------ inputs

\* REPOSITORIES: the configured repository names.
REPOSITORIES == { Lit(<<"i", "b", "r", "o">>), Lit(<<"5", "0", "n", "5", "0">>) }

\* The lists find_repositories() can return: the cloned directories, in the
\* order the directory listing gives them.
RepositoryLists ==
    { <<a>> : a \in REPOSITORIES } \cup
    { list \in REPOSITORIES \X REPOSITORIES : list[1] # list[2] }

TvAnime == Lit(<<"T", "V", " ", "A", "n", "i", "m", "e">>)

\* Parsed JSON objects a file can hold.
Documents ==
    { \* the scenarios of the specification
      [type |-> Str(TvAnime), sourceName |-> Str(Lit(<<"Z", "e", "d">>))],
      [type |-> Str(TvAnime), sourceName |-> Str(Lit(<<"a", "l", "p", "h", "a">>))],
      [type |-> Str(<<>>), sourceName |-> Str(Lit(<<"X">>))],
      \* no type, no sourceName; a name, and keys the program also writes
      ("_metadata" :> Str(Lit(<<"o", "l", "d">>))) @@
        [name |-> Str(Lit(<<"Y", "o">>)), repository |-> Str(Lit(<<"z", "z">>)),
         baseUrl |-> Str(Lit(<<"u">>))],
      \* optional fields that are not strings
      [type |-> Num(5), sourceName |-> Str(Lit(<<"N">>))],
      [type |-> Str(TvAnime), sourceName |-> Null],
      [type |-> Null, name |-> Num(7)] }

\* relative_path of the k-th file found in a repository: "src/<k>.json".
RelativePath(k) == Lit(<<"s", "r", "c", "/">>) \o <<48 + k>> \o Lit(<<".", "j", "s", "o", "n">>)

\* ------------------------------------------------------------ organize_sources

NoSummary == [written |-> FALSE]

Init ==
    /\ pc = "start"
    /\ repositories = <<>>
    /\ ri = 0
    /\ json_files = 0
    /\ fi = 0
    /\ total_files_found = 0
    /\ total_files_processed = 0
    /\ total_files_failed = 0
    /\ heap = <<>>
    /\ loaded = <<>>
    /\ organized_data = <<>>
    /\ all_types = {}
    /\ combined_by_type = <<>>
    /\ wpos = 0
    /\ cpos = 0
    /\ repo_files = <<>>
    /\ combined_files = <<>>
    /\ summary = NoSummary
    /\ raised = "nothing"
    /\ call = [state |-> "none"]

\* Lines 136-140: no repository was cloned; the function returns.
CloneNone ==
    /\ pc = "start"
    /\ pc' = "returned"
    /\ UNCHANGED << repositories, ri, json_files, fi, total_files_found,
                    total_files_processed, total_files_failed, heap, loaded,
                    organized_data, all_types, combined_by_type, wpos, cpos,
                    repo_files, combined_files, summary, raised, call >>

\* Lines 136-156: repositories were cloned and are listed.
FindRepositories ==
    /\ pc = "start"
    /\ \E list \in RepositoryLists : repositories' = list
    /\ pc' = "repos"
    /\ UNCHANGED << ri, json_files, fi, total_files_found,
                    total_files_processed, total_files_failed, heap, loaded,
                    organized_data, all_types, combined_by_type, wpos, cpos,
                    repo_files, combined_files, summary, raised, call >>

\* Lines 158-169: the next repository; its files are found and counted.
BeginRepository ==
    /\ pc = "repos"
    /\ ri < Len(repositories)
    /\ ri' = ri + 1
    /\ \E n \in 0..(MaxFiles - total_files_found) :
          /\ json_files' = n
          /\ total_files_found' = total_files_found + n
    /\ fi' = 0
    /\ pc' = "files"
    /\ UNCHANGED << repositories, total_files_processed, total_files_failed, heap,
                    loaded, organized_data, all_types, combined_by_type, wpos, cpos,
                    repo_files, combined_files, summary, raised, call >>

\* Line 171: the files of the repository are exhausted.
EndRepository ==
    /\ pc = "files"
    /\ fi = json_files
    /\ pc' = "repos"
    /\ UNCHANGED << repositories, ri, json_files, fi, total_files_found,
                    total_files_processed, total_files_failed, heap, loaded,
                    organized_data, all_types, combined_by_type, wpos, cpos,
                    repo_files, combined_files, summary, raised, call >>

\* Faulty variant: a failed load is skipped without being counted.
LoadFailed_uncounted ==
    /\ pc = "files"
    /\ fi < json_files
    /\ fi' = fi + 1
    /\ UNCHANGED << pc, repositories, ri, json_files, total_files_found,
                    total_files_processed, total_files_failed, heap, loaded,
                    organized_data, all_types, combined_by_type, wpos, cpos,
                    repo_files, combined_files, summary, raised, call >>

\* Lines 175-180: load_json_file returned None (unreadable file, invalid
\* JSON, or the JSON value null).
LoadFailed ==
    /\ pc = "files"
    /\ fi < json_files
    /\ fi' = fi + 1
    /\ total_files_failed' = total_files_failed + 1
    /\ UNCHANGED << pc, repositories, ri, json_files, total_files_found,
                    total_files_processed, heap, loaded,
                    organized_data, all_types, combined_by_type, wpos, cpos,
                    repo_files, combined_files, summary, raised, call >>

\* Line 183: the file holds JSON that is not an object (a list, a number, a
\* string): json_data.get raises AttributeError.
LoadedNonObject ==
    /\ pc = "files"
    /\ fi < json_files
    /\ pc' = "raised"
    /\ raised' = "json_data.get"
    /\ UNCHANGED << repositories, ri, json_files, fi, total_files_found,
                    total_files_processed, total_files_failed, heap, loaded,
                    organized_data, all_types, combined_by_type, wpos, cpos,
                    repo_files, combined_files, summary, call >>

\* Line 183: json_data.get("type", "other")
SourceType(json_data) == Get(json_data, "type", Str(Other))

\* Lines 187-191: the _metadata object.
Metadata(relative_path, repo_name, source_type) ==
    Object([original_file |-> Str(relative_path),
            repository |-> Str(repo_name),
            original_type |-> source_type])

\* Faulty variant: original_type records the normalized type.
AttachMetadata_normalized_type(json_data, relative_path, repo_name, source_type) ==
    Put(json_data, "_metadata",
        Metadata(relative_path, repo_name, Str(normalize_type(source_type))))

\* Lines 187-191: json_data["_metadata"] = {...}
AttachMetadata(json_data, relative_path, repo_name, source_type) ==
    Put(json_data, "_metadata", Metadata(relative_path, repo_name, source_type))

\* Line 194: organized_data[repo_name][normalized_type].append(json_data), on
\* a defaultdict of defaultdicts of lists.
AppendSource(data, repo_name, normalized_type, ref) ==
    LET types_dict == Get(data, repo_name, <<>>)
        sources == Get(types_dict, normalized_type, <<>>)
    IN  Put(data, repo_name, Put(types_dict, normalized_type, Append(sources, ref)))

\* Lines 183-184: normalize_type raises on the document's type.
IngestRaises ==
    /\ pc = "files"
    /\ fi < json_files
    /\ \E json_data \in Documents : normalize_type_raises(SourceType(json_data))
    /\ pc' = "raised"
    /\ raised' = "type_str.lower"
    /\ UNCHANGED << repositories, ri, json_files, fi, total_files_found,
                    total_files_processed, total_files_failed, heap, loaded,
                    organized_data, all_types, combined_by_type, wpos, cpos,
                    repo_files, combined_files, summary, call >>

\* Lines 175-198: one file is loaded, classified and added.
Ingest ==
    /\ pc = "files"
    /\ fi < json_files
    /\ \E json_data \in Documents :
          LET repo_name == repositories[ri]
              relative_path == RelativePath(fi + 1)
              source_type == SourceType(json_data)
              normalized_type == normalize_type(source_type)
              ref == Len(heap) + 1
          IN  /\ ~normalize_type_raises(source_type)
              /\ heap' = Append(heap, AttachMetadata(json_data, relative_path,
                                                     repo_name, source_type))
              /\ loaded' = Append(loaded, [json_data |-> json_data,
                                           relative_path |-> relative_path,
                                           repo_name |-> repo_name])
              /\ organized_data' =
                    AppendSource(organized_data, repo_name, normalized_type, ref)
    /\ total_files_processed' = total_files_processed + 1
    /\ fi' = fi + 1
    /\ UNCHANGED << pc, repositories, ri, json_files, total_files_found,
                    total_files_failed, all_types, combined_by_type, wpos, cpos,
                    repo_files, combined_files, summary, raised, call >>

\* Line 158: the repositories are exhausted; lines 200-208.
BeginWrite ==
    /\ pc = "repos"
    /\ ri = Len(repositories)
    /\ pc' = "write"
    /\ UNCHANGED << repositories, ri, json_files, fi, total_files_found,
                    total_files_processed, total_files_failed, heap, loaded,
                    organized_data, all_types, combined_by_type, wpos, cpos,
                    repo_files, combined_files, summary, raised, call >>

\* organized_data.items(): the repositories in insertion order, which is the
\* order of the loop at line 158.
Items(data) ==
    LET Present(repo_name) == repo_name \in DOMAIN data
    IN  SelectSeq(repositories, Present)

\* The (repo_name, source_type) pairs in the order of the loops at lines 210
\* and 216: repositories in insertion order, types sorted.
RECURSIVE TypePairs(_, _)
TypePairs(data, repos) ==
    IF repos = <<>> THEN <<>>
    ELSE LET types == Sorted(DOMAIN data[Head(repos)])
         IN  [i \in 1..Len(types) |-> <<Head(repos), types[i]>>]
             \o TypePairs(data, Tail(repos))

WriteOrder == TypePairs(organized_data, Items(organized_data))

\* json.dump(sources, f): the documents as they are at the time of the call.
Dump(sources) == [i \in 1..Len(sources) |-> heap[sources[i]]]

Refs(list) == {list[i] : i \in 1..Len(list)}

\* Line 221: key=lambda x: x.get("sourceName", "").lower()
SourceNameOf(x) == Get(x, "sourceName", Str(<<>>))

\* Faulty variant: the key is not lower-cased.
RepoSortKey_case_sensitive(x) == << SourceNameOf(x).s >>

RepoSortKey(x) == << Lower(SourceNameOf(x).s) >>

\* Line 221: sources.sort(key=...)
SortSources(sources) ==
    SortByKey(sources, [ref \in Refs(sources) |-> RepoSortKey(heap[ref])])

\* Line 231: source["repository"] = repo_name
SetRepository(source, repo_name) == Put(source, "repository", Str(repo_name))

\* Faulty variant: the list of the type is replaced, not extended.
AppendCombined_overwrite(combined, source_type, sources) ==
    Put(combined, source_type, sources)

\* Line 232: combined_by_type[source_type].append(source), for every source.
AppendCombined(combined, source_type, sources) ==
    Put(combined, source_type, Get(combined, source_type, <<>>) \o sources)

\* Faulty variant: the set is replaced by the one type.
AddType_overwrite(types, source_type) == {source_type}

\* Line 217: all_types.add(source_type)
AddType(types, source_type) == types \cup {source_type}

\* Lines 216-221: the sort key raises on a sourceName that is not a str.
WriteSourcesRaises ==
    /\ pc = "write"
    /\ wpos < Len(WriteOrder)
    /\ LET repo_name == WriteOrder[wpos + 1][1]
           source_type == WriteOrder[wpos + 1][2]
           sources == organized_data[repo_name][source_type]
       IN  /\ \E ref \in Refs(sources) : SourceNameOf(heap[ref]).kind # "str"
           /\ all_types' = AddType(all_types, source_type)
    /\ pc' = "raised"
    /\ raised' = "sourceName.lower"
    /\ UNCHANGED << repositories, ri, json_files, fi, total_files_found,
                    total_files_processed, total_files_failed, heap, loaded,
                    organized_data, combined_by_type, wpos, cpos,
                    repo_files, combined_files, summary, call >>

\* Lines 216-232: one (repository, type) list is sorted, written and added
\* to the combined structure.
WriteSources ==
    /\ pc = "write"
    /\ wpos < Len(WriteOrder)
    /\ LET repo_name == WriteOrder[wpos + 1][1]
           source_type == WriteOrder[wpos + 1][2]
           sources == organized_data[repo_name][source_type]
           sorted == SortSources(sources)
       IN  /\ \A ref \in Refs(sources) : SourceNameOf(heap[ref]).kind = "str"
           /\ all_types' = AddType(all_types, source_type)
           /\ organized_data' =
                 Put(organized_data, repo_name,
                     Put(organized_data[repo_name], source_type, sorted))
           /\ repo_files' = Put(repo_files, <<repo_name, source_type>>, Dump(sorted))
           /\ heap' = [ref \in DOMAIN heap |->
                         IF ref \in Refs(sources)
                         THEN SetRepository(heap[ref], repo_name)
                         ELSE heap[ref]]
           /\ combined_by_type' = AppendCombined(combined_by_type, source_type, sorted)
    /\ wpos' = wpos + 1
    /\ UNCHANGED << pc, repositories, ri, json_files, fi, total_files_found,
                    total_files_processed, total_files_failed, loaded, cpos,
                    combined_files, summary, raised, call >>

\* Lines 234-240: the loops at lines 210 and 216 are exhausted.
BeginCombined ==
    /\ pc = "write"
    /\ wpos = Len(WriteOrder)
    /\ pc' = "combine"
    /\ UNCHANGED << repositories, ri, json_files, fi, total_files_found,
                    total_files_processed, total_files_failed, heap, loaded,
                    organized_data, all_types, combined_by_type, wpos, cpos,
                    repo_files, combined_files, summary, raised, call >>

\* Line 246: key=lambda x: (x.get("repository", ""),
\*                          x.get("sourceName", x.get("name", "")).lower())
CombinedNameOf(x) == Get(x, "sourceName", Get(x, "name", Str(<<>>)))

\* Faulty variant: the repository is left out of the key.
CombinedSortKey_name_only(x) == << Lower(CombinedNameOf(x).s) >>

CombinedSortKey(x) == << Get(x, "repository", Str(<<>>)).s, Lower(CombinedNameOf(x).s) >>

\* Line 246: sources.sort(key=...)
SortCombined(sources) ==
    SortByKey(sources, [ref \in Refs(sources) |-> CombinedSortKey(heap[ref])])

\* sorted(combined_by_type.items()): the types in ascending order.
CombinedOrder == Sorted(DOMAIN combined_by_type)

\* Lines 242-246: the sort key raises on a name that is not a str.
WriteCombinedRaises ==
    /\ pc = "combine"
    /\ cpos < Len(CombinedOrder)
    /\ LET sources == combined_by_type[CombinedOrder[cpos + 1]]
       IN  \E ref \in Refs(sources) : CombinedNameOf(heap[ref]).kind # "str"
    /\ pc' = "raised"
    /\ raised' = "name.lower"
    /\ UNCHANGED << repositories, ri, json_files, fi, total_files_found,
                    total_files_processed, total_files_failed, heap, loaded,
                    organized_data, all_types, combined_by_type, wpos, cpos,
                    repo_files, combined_files, summary, call >>

\* Lines 242-252: one combined list is sorted and written.
WriteCombined ==
    /\ pc = "combine"
    /\ cpos < Len(CombinedOrder)
    /\ LET source_type == CombinedOrder[cpos + 1]
           sources == combined_by_type[source_type]
           sorted == SortCombined(sources)
       IN  /\ \A ref \in Refs(sources) : CombinedNameOf(heap[ref]).kind = "str"
           /\ combined_by_type' = Put(combined_by_type, source_type, sorted)
           /\ combined_files' = Put(combined_files, source_type, Dump(sorted))
    /\ cpos' = cpos + 1
    /\ UNCHANGED << pc, repositories, ri, json_files, fi, total_files_found,
                    total_files_processed, total_files_failed, heap, loaded,
                    organized_data, all_types, wpos, repo_files, summary,
                    raised, call >>

\* Lines 251, 290: set(s.get("repository", "Unknown") for s in sources)
RepositoriesOf(sources) ==
    { Get(heap[ref], "repository", Str(Lit(<<"U", "n", "k", "n", "o", "w", "n">>))).s
        : ref \in Refs(sources) }

\* Line 283: [s.get("sourceName", "Unknown") for s in sources]
DisplayNames(sources) ==
    [i \in 1..Len(sources) |->
        Get(heap[sources[i]], "sourceName", Str(Lit(<<"U", "n", "k", "n", "o", "w", "n">>)))]

\* sum(len(sources) for sources in types_dict.values())
RECURSIVE TotalSources(_, _)
TotalSources(types_dict, types) ==
    IF types = {} THEN 0
    ELSE LET t == CHOOSE x \in types : TRUE
         IN  Len(types_dict[t]) + TotalSources(types_dict, types \ {t})

\* Lines 273-286: the summary of one repository.
RepoSummary(types_dict) ==
    [types |-> Sorted(DOMAIN types_dict),
     total_sources |-> TotalSources(types_dict, DOMAIN types_dict),
     sources_by_type |->
        [t \in DOMAIN types_dict |->
            [count |-> Len(types_dict[t]), sources |-> DisplayNames(types_dict[t])]]]

\* Lines 289-295: the combined summary of one type.
CombinedSummary(sources) ==
    [total_sources |-> Len(sources),
     repositories |-> Sorted(RepositoriesOf(sources)),
     repository_count |-> Cardinality(RepositoriesOf(sources))]

\* Line 263: sorted(list(all_types))
AllTypesList(types) == Sorted(types)

\* Lines 259-295: the summary object (generated_at left out).
BuildSummary ==
    [written |-> TRUE,
     total_repositories |-> Cardinality(DOMAIN organized_data),
     total_types |-> Cardinality(all_types),
     all_types |-> AllTypesList(all_types),
     statistics |-> [files_found |-> total_files_found,
                     files_processed |-> total_files_processed,
                     files_failed |-> total_files_failed],
     repositories |-> [r \in DOMAIN organized_data |-> RepoSummary(organized_data[r])],
     combined_summary |->
        [t \in DOMAIN combined_by_type |-> CombinedSummary(combined_by_type[t])]]

\* Lines 254-341: the combined loop is exhausted; the summary is written.
WriteSummary ==
    /\ pc = "combine"
    /\ cpos = Len(CombinedOrder)
    /\ summary' = BuildSummary
    /\ pc' = "done"
    /\ UNCHANGED << repositories, ri, json_files, fi, total_files_found,
                    total_files_processed, total_files_failed, heap, loaded,
                    organized_data, all_types, combined_by_type, wpos, cpos,
                    repo_files, combined_files, raised, call >>

Next ==
    \/ CloneNone
    \/ FindRepositories
    \/ BeginRepository
    \/ LoadFailed
    \/ LoadedNonObject
    \/ IngestRaises
    \/ Ingest
    \/ EndRepository
    \/ BeginWrite
    \/ WriteSourcesRaises
    \/ WriteSources
    \/ BeginCombined
    \/ WriteCombinedRaises
    \/ WriteCombined
    \/ WriteSummary

Spec == Init /\ [][Next]_vars

\* ------------------------------------------------------------ normalize_type alone

\* Pieces raw type strings are put together from.
Tokens ==
    { Lit(<<"_">>), Lit(<<" ">>), Lit(<<"-">>), Lit(<<"/">>), Tab,
      Lit(<<"T", "v">>), Lit(<<"A", "n", "i", "m", "e">>), Lit(<<"s", "h", "o", "w">>) }

RECURSIVE TokenStrings(_)
TokenStrings(n) ==
    IF n = 0 THEN { <<>> }
    ELSE LET shorter == TokenStrings(n - 1)
         IN  shorter \cup { s \o t : s \in shorter, t \in Tokens }

\* The arguments normalize_type is called with.
TypeArguments ==
    { Str(s) : s \in TokenStrings(MaxTokens) } \cup { Null, Num(0), Num(5) }

InitNormalize ==
    /\ pc = "start"
    /\ repositories = <<>>
    /\ ri = 0
    /\ json_files = 0
    /\ fi = 0
    /\ total_files_found = 0
    /\ total_files_processed = 0
    /\ total_files_failed = 0
    /\ heap = <<>>
    /\ loaded = <<>>
    /\ organized_data = <<>>
    /\ all_types = {}
    /\ combined_by_type = <<>>
    /\ wpos = 0
    /\ cpos = 0
    /\ repo_files = <<>>
    /\ combined_files = <<>>
    /\ summary = NoSummary
    /\ raised = "nothing"
    /\ call \in { [state |-> "called", type_str |-> v] : v \in TypeArguments }

\* Lines 22-35: the call returns.
NormalizeReturns ==
    /\ call.state = "called"
    /\ ~normalize_type_raises(call.type_str)
    /\ call' = [state |-> "returned", type_str |-> call.type_str,
                result |-> normalize_type(call.type_str)]
    /\ UNCHANGED pipeline

\* Line 28: the call raises.
NormalizeRaises ==
    /\ call.state = "called"
    /\ normalize_type_raises(call.type_str)
    /\ call' = [state |-> "raised", type_str |-> call.type_str]
    /\ UNCHANGED pipeline

NextNormalize ==
    \/ NormalizeReturns
    \/ NormalizeRaises

SpecNormalize == InitNormalize /\ [][NextNormalize]_vars

\* ------------------------------------------------------------ properties

Keyword(cs) == Lit(cs)
Anime == Keyword(<<"a", "n", "i", "m", "e">>)
Manga == Keyword(<<"m", "a", "n", "g", "a">>)
Novel == Keyword(<<"n", "o", "v", "e", "l">>)
Movie == Keyword(<<"m", "o", "v", "i", "e">>)
Show == Keyword(<<"s", "h", "o", "w">>)

\* The lower-cased value contains one of the keywords of the classification.
MatchesKeyword(s) ==
    \E k \in {Anime, Manga, Novel, Movie, Show} : Contains(Lower(s), k)

\* C1: a returned call on a string classifies by the first matching keyword of
\* the lower-cased value, in the order anime, manga, novel, movie/show.
C1_KeywordPriority ==
    (call.state = "returned" /\ call.type_str.kind = "str") =>
        LET low == Lower(call.type_str.s)
        IN  /\ Contains(low, Anime) => call.result = Anime
            /\ (~Contains(low, Anime) /\ Contains(low, Manga)) => call.result = Manga
            /\ (~Contains(low, Anime) /\ ~Contains(low, Manga) /\ Contains(low, Novel))
                  => call.result = Lit(<<"n", "o", "v", "e", "l", "s">>)
            /\ (~Contains(low, Anime) /\ ~Contains(low, Manga) /\ ~Contains(low, Novel)
                  /\ (Contains(low, Movie) \/ Contains(low, Show)))
                  => call.result
                       = Lit(<<"m", "o", "v", "i", "e", "s", "_", "s", "h", "o", "w", "s">>)

\* The document behind a reference, as load_json_file returned it.
InputOf(ref) == loaded[ref].json_data

\* The document has no type, or the empty string as its type.
TypeAbsentOrEmpty(json_data) ==
    "type" \notin DOMAIN json_data \/ json_data["type"] = Str(<<>>)

\* The (repo_name, type) pairs that have a list in organized_data.
AllLists ==
    UNION { { <<r, t>> : t \in DOMAIN organized_data[r] } : r \in DOMAIN organized_data }

\* C2: every ingested document whose type is absent or the empty string is in
\* the "other" list of its repository and in no other list.
C2_AbsentOrEmptyTypeIsOther ==
    \A ref \in DOMAIN heap :
        TypeAbsentOrEmpty(InputOf(ref)) =>
            { pair \in AllLists : ref \in Refs(organized_data[pair[1]][pair[2]]) }
                = { <<loaded[ref].repo_name, Other>> }

C2_Witness ==
    /\ \E ref \in DOMAIN heap : "type" \notin DOMAIN InputOf(ref)
    /\ \E ref \in DOMAIN heap :
          "type" \in DOMAIN InputOf(ref) /\ InputOf(ref)["type"] = Str(<<>>)

\* The name a document is ordered by within its repository: its sourceName
\* lower-cased, the empty string when it has none.
NameKey(json_data) ==
    IF "sourceName" \in DOMAIN json_data THEN Lower(json_data["sourceName"].s) ELSE <<>>

\* The (repo_name, type) lists the write phase has handled.
Handled == { WriteOrder[k] : k \in 1..wpos }

\* C3: a list the write phase has handled, and the array written for it, are
\* in ascending order of lower-cased sourceName, a missing sourceName counting
\* as the empty string.
C3_RepoListsSorted ==
    \A pair \in Handled :
        LET sources == organized_data[pair[1]][pair[2]]
        IN  /\ \A i, j \in 1..Len(sources) :
                  i < j => ~StrLess(NameKey(InputOf(sources[j])), NameKey(InputOf(sources[i])))
            /\ pair \in DOMAIN repo_files
            /\ Len(repo_files[pair]) = Len(sources)
            /\ \A i, j \in 1..Len(sources) :
                  i < j => ~StrLess(NameKey(repo_files[pair][j]), NameKey(repo_files[pair][i]))

\* A handled list that the sort reordered, a document without sourceName first.
C3_Witness ==
    \E pair \in Handled :
        LET sources == organized_data[pair[1]][pair[2]]
        IN  /\ Len(sources) >= 2
            /\ sources[1] > sources[2]
            /\ "sourceName" \notin DOMAIN InputOf(sources[1])
            /\ NameKey(InputOf(sources[2])) # <<>>

Count(list, ref) == Cardinality({i \in 1..Len(list) : list[i] = ref})

RECURSIVE SumOfLengths(_, _)
SumOfLengths(c, repos) ==
    IF repos = {} THEN 0
    ELSE LET r == CHOOSE x \in repos : TRUE
         IN  Len(Get(organized_data[r], c, <<>>)) + SumOfLengths(c, repos \ {r})

WritePhaseOver == pc \in {"combine", "done"} \/ (pc = "raised" /\ raised = "name.lower")

\* C4: after the write phase, combined_by_type[c] holds the documents of
\* organized_data[r][c] over all r, each as often as there, and no others.
C4_CombinedIsUnion ==
    WritePhaseOver =>
        /\ DOMAIN combined_by_type = { pair[2] : pair \in AllLists }
        /\ \A c \in DOMAIN combined_by_type :
              /\ Len(combined_by_type[c]) = SumOfLengths(c, DOMAIN organized_data)
              /\ \A ref \in DOMAIN heap :
                    Count(combined_by_type[c], ref)
                      = Cardinality({ r \in DOMAIN organized_data :
                                        /\ c \in DOMAIN organized_data[r]
                                        /\ ref \in Refs(organized_data[r][c]) })
        /\ \A ref \in DOMAIN heap :
              Cardinality({ <<c, i>> \in (DOMAIN combined_by_type) \X (1..Len(heap)) :
                              /\ i <= Len(combined_by_type[c])
                              /\ combined_by_type[c][i] = ref }) = 1

\* Two repositories contribute to one combined list.
C4_Witness ==
    /\ pc = "done"
    /\ \E c \in DOMAIN combined_by_type :
          /\ Cardinality({ r \in DOMAIN organized_data : c \in DOMAIN organized_data[r] }) = 2
          /\ Len(combined_by_type[c]) >= 3

\* The combined lists the combined phase has handled.
HandledCombined == { CombinedOrder[k] : k \in 1..cpos }

\* The name a document is ordered by in a combined list: its sourceName
\* lower-cased; without a sourceName its name lower-cased; else the empty string.
NameOrFallbackKey(json_data) ==
    IF "sourceName" \in DOMAIN json_data THEN Lower(json_data["sourceName"].s)
    ELSE IF "name" \in DOMAIN json_data THEN Lower(json_data["name"].s)
    ELSE <<>>

\* The sequence is in ascending order of the keys (tuples of str).
Ascending(keys) ==
    \A i, j \in 1..Len(keys) : i < j => ~TupleLess(keys[j], keys[i])

\* The array written to combined/<type>.json is the handled list, document
\* by document.
CombinedFileMatches(c) ==
    /\ c \in DOMAIN combined_files
    /\ Len(combined_files[c]) = Len(combined_by_type[c])
    /\ \A i \in 1..Len(combined_by_type[c]) :
          combined_files[c][i] = heap[combined_by_type[c][i]]

\* C5 as stated: a handled combined list is ordered by repository id, then by
\* lower-cased sourceName, a missing sourceName counting as the empty string.
C5_CombinedSortedBySourceName ==
    \A c \in HandledCombined :
        /\ CombinedFileMatches(c)
        /\ Ascending([i \in 1..Len(combined_by_type[c]) |->
              << loaded[combined_by_type[c][i]].repo_name,
                 NameKey(InputOf(combined_by_type[c][i])) >>])

\* C5 amended: a handled combined list is ordered by repository id, then by
\* the lower-cased sourceName, or without one the lower-cased name, or
\* without both the empty string.
C5_CombinedSortedByNameFallback ==
    \A c \in HandledCombined :
        /\ CombinedFileMatches(c)
        /\ Ascending([i \in 1..Len(combined_by_type[c]) |->
              << loaded[combined_by_type[c][i]].repo_name,
                 NameOrFallbackKey(InputOf(combined_by_type[c][i])) >>])

\* A handled combined list with documents of both repositories that the sort
\* reordered, and in it a document without sourceName placed by its name.
C5_Witness ==
    \E c \in HandledCombined :
        LET sources == combined_by_type[c]
        IN  /\ \E i, j \in 1..Len(sources) :
                  /\ i < j
                  /\ loaded[sources[i]].repo_name = loaded[sources[j]].repo_name
                  /\ "sourceName" \in DOMAIN InputOf(sources[i])
                  /\ "sourceName" \notin DOMAIN InputOf(sources[j])
                  /\ "name" \in DOMAIN InputOf(sources[j])
            /\ \E i, j \in 1..Len(sources) :
                  /\ i < j
                  /\ sources[i] > sources[j]
                  /\ loaded[sources[i]].repo_name # loaded[sources[j]].repo_name

\* C6: while no call has raised, every file handled so far was counted once,
\* as processed or as failed; with every file handled the two add up to
\* files_found, in the run and in the summary.
C6_ProcessedPlusFailedIsFound ==
    /\ pc \in {"start", "returned", "repos", "files", "write", "combine", "done"} =>
          total_files_processed + total_files_failed + (json_files - fi)
              = total_files_found
    /\ pc \in {"repos", "write", "combine", "done"} =>
          /\ fi = json_files
          /\ total_files_processed + total_files_failed = total_files_found
          /\ total_files_processed = Len(heap)
    /\ pc = "done" =>
          /\ summary.statistics.files_processed + summary.statistics.files_failed
                = summary.statistics.files_found
          /\ summary.statistics.files_found = total_files_found
          /\ summary.statistics.files_failed = total_files_failed

C6_Witness ==
    /\ pc = "done"
    /\ summary.statistics.files_failed >= 1
    /\ summary.statistics.files_processed >= 2
    /\ Len(repositories) = 2

\* C7: no call raises because of a document's optional fields; the only
\* exception of a run comes from JSON that is not an object.
C7_NoRaiseOnOptionalFields ==
    raised \in {"nothing", "json_data.get"}

\* What line 190 stores as original_type.
RawType(json_data) == IF "type" \in DOMAIN json_data THEN json_data["type"] ELSE Str(Other)

ExpectedMetadata(ref) ==
    Object([original_file |-> Str(loaded[ref].relative_path),
            repository |-> Str(loaded[ref].repo_name),
            original_type |-> RawType(InputOf(ref))])

\* out is the input document of ref with the keys in added set to the
\* program's values and every other key as in the input.
SameExcept(out, ref, added) ==
    /\ DOMAIN out = DOMAIN InputOf(ref) \cup added
    /\ \A k \in DOMAIN InputOf(ref) \ added : out[k] = InputOf(ref)[k]
    /\ "_metadata" \in added => out["_metadata"] = ExpectedMetadata(ref)
    /\ "repository" \in added => out["repository"] = Str(loaded[ref].repo_name)

\* C8 as stated: every key of the input document, _metadata and repository
\* included, has its input value in the written arrays; the outputs add
\* _metadata and, in the combined arrays, repository.
C8_EveryInputKeyKept ==
    /\ \A pair \in DOMAIN repo_files :
          \A i \in 1..Len(repo_files[pair]) :
              LET ref == organized_data[pair[1]][pair[2]][i]
                  out == repo_files[pair][i]
              IN  /\ \A k \in DOMAIN InputOf(ref) : out[k] = InputOf(ref)[k]
                  /\ "_metadata" \notin DOMAIN InputOf(ref)
                        => out["_metadata"] = ExpectedMetadata(ref)
    /\ \A c \in DOMAIN combined_files :
          \A i \in 1..Len(combined_files[c]) :
              LET ref == combined_by_type[c][i]
                  out == combined_files[c][i]
              IN  /\ \A k \in DOMAIN InputOf(ref) : out[k] = InputOf(ref)[k]
                  /\ "_metadata" \notin DOMAIN InputOf(ref)
                        => out["_metadata"] = ExpectedMetadata(ref)
                  /\ "repository" \notin DOMAIN InputOf(ref)
                        => out["repository"] = Str(loaded[ref].repo_name)

\* C8 amended: _metadata is set at ingestion to {original_file, repository,
\* original_type} (original_type "other" without a type) and stays so; the
\* array of a repository is the input documents with _metadata set; a combined
\* array is the input documents with _metadata and repository set; every
\* other input key has its input value.
C8_InputKeysKeptExceptWritten ==
    /\ \A ref \in DOMAIN heap :
          \/ SameExcept(heap[ref], ref, {"_metadata"})
          \/ SameExcept(heap[ref], ref, {"_metadata", "repository"})
    /\ \A pair \in DOMAIN repo_files :
          /\ Len(repo_files[pair]) = Len(organized_data[pair[1]][pair[2]])
          /\ \A i \in 1..Len(repo_files[pair]) :
                SameExcept(repo_files[pair][i], organized_data[pair[1]][pair[2]][i],
                           {"_metadata"})
    /\ \A c \in DOMAIN combined_files :
          /\ Len(combined_files[c]) = Len(combined_by_type[c])
          /\ \A i \in 1..Len(combined_files[c]) :
                SameExcept(combined_files[c][i], combined_by_type[c][i],
                           {"_metadata", "repository"})

\* A finished run wrote a document whose input had its own _metadata and
\* repository keys, and one with a type.
C8_Witness ==
    /\ pc = "done"
    /\ \E c \in DOMAIN combined_files :
          \E i \in 1..Len(combined_files[c]) :
              {"_metadata", "repository", "baseUrl"} \subseteq DOMAIN InputOf(combined_by_type[c][i])
    /\ \E pair \in DOMAIN repo_files :
          \E i \in 1..Len(repo_files[pair]) :
              "type" \in DOMAIN InputOf(organized_data[pair[1]][pair[2]][i])

\* The characters of s at the positions in keep, in order.
Pick(s, keep) ==
    [n \in 1..Cardinality(keep) |->
        s[CHOOSE i \in keep : Cardinality({j \in keep : j <= i}) = n]]

\* C9: on a non-empty string with no keyword, the call returns the lower-cased,
\* trimmed string with "/", " " and "-" turned into "_" and of every run of
\* underscores only the first kept.
C9_SanitizedPassThrough ==
    (/\ call.state \in {"returned", "raised"}
     /\ call.type_str.kind = "str"
     /\ call.type_str.s # <<>>
     /\ ~MatchesKeyword(call.type_str.s)) =>
        LET trimmed == Strip(Lower(call.type_str.s))
            mapped == [i \in 1..Len(trimmed) |->
                          IF trimmed[i] \in {47, 32, 45} THEN 95 ELSE trimmed[i]]
            keep == {i \in 1..Len(mapped) :
                        ~(mapped[i] = 95 /\ i > 1 /\ mapped[i - 1] = 95)}
        IN  /\ call.state = "returned"
            /\ call.result = Pick(mapped, keep)
            /\ \A i \in 1..Len(call.result) : call.result[i] \notin {47, 32, 45}
            /\ ~Contains(call.result, <<95, 95>>)

\* A returned call whose argument has a run of three separators.
C9_Witness ==
    /\ call.state = "returned"
    /\ call.type_str.kind = "str"
    /\ ~MatchesKeyword(call.type_str.s)
    /\ \E i \in 1..(Len(call.type_str.s) - 2) :
          /\ i > 1
          /\ \A j \in i..(i + 2) : call.type_str.s[j] \in {47, 32, 45, 95}
    /\ Len(call.result) >= 3

\* The sequence of str is strictly ascending: sorted, and free of duplicates.
StrictlyAscending(list) ==
    \A i, j \in 1..Len(list) : i < j => StrLess(list[i], list[j])

\* C10: in the summary all_types is the sorted, duplicate-free list of the
\* types of organized_data, total_types is its length, and these are the keys
\* of combined_by_type and of combined_summary.
C10_AllTypesAreTheCombinedKeys ==
    pc = "done" =>
        /\ summary.written
        /\ StrictlyAscending(summary.all_types)
        /\ Refs(summary.all_types) = { pair[2] : pair \in AllLists }
        /\ summary.total_types = Len(summary.all_types)
        /\ DOMAIN combined_by_type = Refs(summary.all_types)
        /\ DOMAIN summary.combined_summary = Refs(summary.all_types)
        /\ DOMAIN combined_files = Refs(summary.all_types)

C10_Witness ==
    /\ pc = "done"
    /\ Len(summary.all_types) >= 2
    /\ Cardinality(DOMAIN organized_data) = 2

====
